---- MODULE Spec2Model ----
(***************************************************************************)
(* DDL formatter: the line-oriented rewriter of ddl_formatter_combined_4   *)
(* (DDLFormatter.format) and of ddl_formatter_combined_5                   *)
(* (DDLFormatter.move_commas_to_start).                                    *)
(*                                                                         *)
(* A line of text is a sequence of one-character strings; a document is a  *)
(* sequence of lines (ddl.split('\n')), and the returned text is the       *)
(* sequence of emitted lines ('\n'.join(transformed_lines)).               *)
(***************************************************************************)
EXTENDS Integers, Sequences, FiniteSets, TLC

----------------------------------------------------------------------------
(* Characters and the str methods the formatter uses.                      *)

LowerAlpha ==
  <<"a","b","c","d","e","f","g","h","i","j","k","l","m",
    "n","o","p","q","r","s","t","u","v","w","x","y","z">>

UpperAlpha ==
  <<"A","B","C","D","E","F","G","H","I","J","K","L","M",
    "N","O","P","Q","R","S","T","U","V","W","X","Y","Z">>

DigitChars == {"0","1","2","3","4","5","6","7","8","9"}

LowerSet == {LowerAlpha[i] : i \in DOMAIN LowerAlpha}

UpperSet == {UpperAlpha[i] : i \in DOMAIN UpperAlpha}

\* str.upper / str.lower on one character
upper_char(c) ==
  IF c \in LowerSet
    THEN UpperAlpha[CHOOSE i \in DOMAIN LowerAlpha : LowerAlpha[i] = c]
    ELSE c

lower_char(c) ==
  IF c \in UpperSet
    THEN LowerAlpha[CHOOSE i \in DOMAIN UpperAlpha : UpperAlpha[i] = c]
    ELSE c

upper(s) == [i \in 1..Len(s) |-> upper_char(s[i])]

lower(s) == [i \in 1..Len(s) |-> lower_char(s[i])]

\* \s of the regexes and the whitespace str.strip removes
IsSpace(c) == c \in {" ", "\t"}

\* \w of the regexes: \b lies between a word and a non-word character
IsWordChar(c) == c \in LowerSet \/ c \in UpperSet \/ c \in DigitChars \/ c = "_"

SetMin(S) == CHOOSE m \in S : \A x \in S : m <= x

SetMax(S) == CHOOSE m \in S : \A x \in S : m >= x

\* s[a:b] with 1-based inclusive bounds; empty when b < a
Slice(s, a, b) == IF b < a THEN <<>> ELSE SubSeq(s, a, b)

\* number of leading whitespace characters of s
LeadingSpaces(s) ==
  LET stops == {i \in 1..Len(s) : ~IsSpace(s[i])}
  IN  IF stops = {} THEN Len(s) ELSE SetMin(stops) - 1

lstrip(s) == Slice(s, LeadingSpaces(s) + 1, Len(s))

rstrip(s) ==
  LET keep == {i \in 1..Len(s) : ~IsSpace(s[i])}
  IN  IF keep = {} THEN <<>> ELSE Slice(s, 1, SetMax(keep))

strip(s) == lstrip(rstrip(s))

endswith(s, c) == Len(s) > 0 /\ s[Len(s)] = c

startswith(s, c) == Len(s) > 0 /\ s[1] = c

\* str.rfind(c) as a 1-based index, 0 when c does not occur
rfind(s, c) ==
  LET at == {i \in 1..Len(s) : s[i] = c}
  IN  IF at = {} THEN 0 ELSE SetMax(at)

\* sub occurs in s at index p
OccursAt(s, p, sub) ==
  /\ p >= 1
  /\ p + Len(sub) - 1 <= Len(s)
  /\ \A k \in 1..Len(sub) : s[p + k - 1] = sub[k]

\* `sub in s`
contains(s, sub) == \E p \in 1..(Len(s) + 1) : OccursAt(s, p, sub)

\* str.replace(old, new): non-overlapping occurrences, left to right
RECURSIVE replace_from(_, _, _, _)
replace_from(s, p, old, new) ==
  IF p > Len(s) THEN <<>>
  ELSE IF OccursAt(s, p, old)
         THEN new \o replace_from(s, p + Len(old), old, new)
         ELSE <<s[p]>> \o replace_from(s, p + 1, old, new)

replace(s, old, new) == replace_from(s, 1, old, new)

\* len(identifier.split('.'))
split_count(s) == Cardinality({i \in 1..Len(s) : s[i] = "."}) + 1

\* '.'.join(identifier.split('.')[1:]): the text after the first dot
after_first_dot(s) ==
  LET dots == {i \in 1..Len(s) : s[i] = "."}
  IN  IF dots = {} THEN <<>> ELSE Slice(s, SetMin(dots) + 1, Len(s))

----------------------------------------------------------------------------
(* 4.1 Keyword normalizer: DDLFormatter._uppercase_keywords.               *)

sql_keywords ==
  { <<"a","d","d">>, <<"a","l","t","e","r">>, <<"a","n","d">>,
    <<"a","s">>, <<"a","s","c">>, <<"b","e","t","w","e","e","n">>,
    <<"b","y">>, <<"c","a","s","e">>, <<"c","h","a","r">>,
    <<"c","h","a","r","a","c","t","e","r">>, <<"c","h","e","c","k">>, <<"c","o","l","u","m","n">>,
    <<"c","o","n","s","t","r","a","i","n","t">>, <<"c","r","e","a","t","e">>, <<"d","a","t","e">>,
    <<"d","e","c","i","m","a","l">>, <<"d","e","f","a","u","l","t">>, <<"d","e","l","e","t","e">>,
    <<"d","e","s","c">>, <<"d","i","s","t","i","n","c","t">>, <<"d","o","u","b","l","e">>,
    <<"d","r","o","p">>, <<"e","l","s","e">>, <<"e","n","d">>,
    <<"e","x","i","s","t","s">>, <<"f","a","l","s","e">>, <<"f","l","o","a","t">>,
    <<"f","o","r","e","i","g","n">>, <<"f","r","o","m">>, <<"g","r","o","u","p">>,
    <<"h","a","v","i","n","g">>, <<"i","f">>, <<"i","n">>,
    <<"i","n","n","e","r">>, <<"i","n","s","e","r","t">>, <<"i","n","t">>,
    <<"i","n","t","e","g","e","r">>, <<"i","n","t","o">>, <<"i","s">>,
    <<"j","o","i","n">>, <<"k","e","y">>, <<"l","e","f","t">>,
    <<"l","i","k","e">>, <<"l","i","m","i","t">>, <<"n","o","t">>,
    <<"n","u","l","l">>, <<"n","u","m","e","r","i","c">>, <<"o","n">>,
    <<"o","r">>, <<"o","r","d","e","r">>, <<"o","u","t","e","r">>,
    <<"p","r","e","c","i","s","i","o","n">>, <<"p","r","i","m","a","r","y">>, <<"r","e","f","e","r","e","n","c","e","s">>,
    <<"r","e","p","l","a","c","e">>, <<"r","i","g","h","t">>, <<"s","e","l","e","c","t">>,
    <<"s","e","t">>, <<"t","a","b","l","e">>, <<"t","h","e","n">>,
    <<"t","i","m","e","s","t","a","m","p">>, <<"t","o">>, <<"t","r","u","e">>,
    <<"u","n","i","o","n">>, <<"u","n","i","q","u","e">>, <<"u","p","d","a","t","e">>,
    <<"u","s","i","n","g">>, <<"v","a","l","u","e","s">>, <<"v","a","r","c","h","a","r">>,
    <<"v","i","e","w">>, <<"w","h","e","n">>, <<"w","h","e","r","e">>,
    <<"w","i","t","h">> }

\* \b at index p (between s[p-1] and s[p])
WordBoundary(s, p) ==
  LET before == p > 1 /\ p - 1 <= Len(s) /\ IsWordChar(s[p - 1])
      after  == p >= 1 /\ p <= Len(s) /\ IsWordChar(s[p])
  IN  before # after

\* a faulty matcher: the alternation without its \b anchors, so that a keyword
\* is found inside a longer word
keyword_regex_unanchored(s, p) ==
  LET lens == {n \in {Len(k) : k \in sql_keywords} :
                 /\ p + n - 1 <= Len(s)
                 /\ lower(SubSeq(s, p, p + n - 1)) \in sql_keywords}
  IN  IF lens = {} THEN 0 ELSE SetMin(lens)

\* length of the keyword keyword_regex matches at index p, 0 when none:
\* \b(kw1|kw2|...)\b with re.IGNORECASE
keyword_regex(s, p) ==
  LET lens == {n \in {Len(k) : k \in sql_keywords} :
                 /\ p + n - 1 <= Len(s)
                 /\ WordBoundary(s, p)
                 /\ WordBoundary(s, p + n)
                 /\ lower(SubSeq(s, p, p + n - 1)) \in sql_keywords}
  IN  IF lens = {} THEN 0 ELSE SetMin(lens)

\* keyword_regex.sub(lambda match: match.group(0).upper(), line), scanning from p
RECURSIVE sub_upper(_, _)
sub_upper(s, p) ==
  IF p > Len(s) THEN <<>>
  ELSE LET n == keyword_regex(s, p)
       IN  IF n > 0
             THEN upper(SubSeq(s, p, p + n - 1)) \o sub_upper(s, p + n)
             ELSE <<s[p]>> \o sub_upper(s, p + 1)

_uppercase_keywords(line) == sub_upper(line, 1)

----------------------------------------------------------------------------
(* 4.2 CREATE statement canonicalizer.                                     *)

kw_create == <<"c","r","e","a","t","e">>

kw_table == <<"t","a","b","l","e">>

kw_view == <<"v","i","e","w">>

kw_if == <<"i","f">>

kw_not == <<"n","o","t">>

kw_exists == <<"e","x","i","s","t","s">>

\* a literal of a re.IGNORECASE pattern matches at index p
MatchCI(s, p, word) ==
  /\ p + Len(word) - 1 <= Len(s)
  /\ \A k \in 1..Len(word) : lower_char(s[p + k - 1]) = word[k]

\* index of the first non-whitespace character at or after p (Len(s)+1 when none)
SkipSpaces(s, p) ==
  LET stops == {i \in p..Len(s) : ~IsSpace(s[i])}
  IN  IF stops = {} THEN Len(s) + 1 ELSE SetMin(stops)

\* \s+([^\s(]+) at index q: the index where the identifier starts, 0 on no match
IdentifierAfter(s, q) ==
  LET r == SkipSpaces(s, q)
  IN  IF r > q /\ r <= Len(s) /\ s[r] # "(" THEN r ELSE 0

\* (?:\s+IF\s+NOT\s+EXISTS) at index q: the index after it, 0 on no match
IfNotExistsFrom(s, q, a, b, c) ==
  IF /\ a > q /\ MatchCI(s, a, kw_if)
     /\ b > a + Len(kw_if) /\ MatchCI(s, b, kw_not)
     /\ c > b + Len(kw_not) /\ MatchCI(s, c, kw_exists)
    THEN c + Len(kw_exists)
    ELSE 0

IfNotExistsNot(s, q, a, b) ==
  IfNotExistsFrom(s, q, a, b, SkipSpaces(s, b + Len(kw_not)))

IfNotExistsIf(s, q, a) == IfNotExistsNot(s, q, a, SkipSpaces(s, a + Len(kw_if)))

IfNotExistsAt(s, q) == IfNotExistsIf(s, q, SkipSpaces(s, q))

\* (?:\s+IF\s+NOT\s+EXISTS)?\s+([^\s(]+) at index q, o being where the optional
\* group ends (0: it does not match): the group is tried first and given up
\* when the rest cannot match after it
AfterKind(s, q, o) ==
  IF o # 0 /\ IdentifierAfter(s, o) # 0
    THEN IdentifierAfter(s, o)
    ELSE IdentifierAfter(s, q)

\* (?:TABLE|VIEW)(?:\s+IF\s+NOT\s+EXISTS)?\s+([^\s(]+) at index p: the index
\* where the identifier starts, 0 on no match
HeaderRestAt(s, p, kinds, ifne) ==
  IF \A k \in kinds : ~MatchCI(s, p, k) THEN 0
  ELSE LET q == p + Len(CHOOSE k \in kinds : MatchCI(s, p, k))
       IN  AfterKind(s, q, IF ifne THEN IfNotExistsAt(s, q) ELSE 0)

NoMatch == [found |-> FALSE]

\* the ends of the lazy gap (?:.|\s)+? after a CREATE at index st that the
\* rest of the pattern matches from
GapEnds(s, st, kinds, ifne) ==
  {p \in (st + Len(kw_create) + 1)..Len(s) : HeaderRestAt(s, p, kinds, ifne) # 0}

\* index of the last character of the identifier ([^\s(]+, greedy) from idS
IdentifierEnd(s, idS) ==
  LET stops == {i \in idS..Len(s) : IsSpace(s[i]) \/ s[i] = "("}
  IN  IF stops = {} THEN Len(s) ELSE SetMin(stops) - 1

\* match.groups() of a match from st whose identifier is s[idS..idE]
header_groups(s, st, idS, idE) ==
  [found      |-> TRUE,
   start      |-> st,
   prefix     |-> SubSeq(s, st, idS - 1),
   identifier |-> SubSeq(s, idS, idE),
   suffix     |-> Slice(s, idE + 1, Len(s))]

header_from(s, st, idS) == header_groups(s, st, idS, IdentifierEnd(s, idS))

\* the match from the CREATE at st: the lazy gap is the shortest one
header_at(s, st, kinds, ifne) ==
  header_from(s, st, HeaderRestAt(s, SetMin(GapEnds(s, st, kinds, ifne)), kinds, ifne))

header_first(s, starts, kinds, ifne) ==
  IF starts = {} THEN NoMatch ELSE header_at(s, SetMin(starts), kinds, ifne)

\* regex.search(line) for (CREATE(?:.|\s)+?KIND...\s+)([^\s(]+)(.*): the leftmost
\* CREATE from which the lazy gap reaches a KIND that the rest matches after
header_search(s, kinds, ifne) ==
  header_first(s, {st \in 1..Len(s) : MatchCI(s, st, kw_create)
                                       /\ GapEnds(s, st, kinds, ifne) # {}},
               kinds, ifne)

\* combined_4: one pattern for TABLE and VIEW
create_statement_regex(line) == header_search(line, {kw_table, kw_view}, TRUE)

\* combined_5: one pattern each
create_table_regex(line) == header_search(line, {kw_table}, TRUE)

create_view_regex(line) == header_search(line, {kw_view}, FALSE)

\* the literal the canonicalizer writes: f"{{{{EDW_DB_NAME}}}}"
EDW_DB_NAME == <<"{","{","E","D","W","_","D","B","_","N","A","M","E","}","}">>

\* the literal format() rewrites a placeholder to
edw_db_name == <<"{","{","e","d","w","_","d","b","_","n","a","m","e","}","}">>

or_replace == <<" ","o","r"," ","r","e","p","l","a","c","e"," ">>

CREATE_OR_REPLACE == <<"C","R","E","A","T","E"," ","O","R"," ","R","E","P","L","A","C","E"," ">>

TABLE_ == <<"T","A","B","L","E"," ">>

VIEW_ == <<"V","I","E","W"," ">>

\* a faulty qualifier: the placeholder in front of every identifier, the
\* database part of a three-part one kept
new_identifier_prepended(identifier) == EDW_DB_NAME \o <<".">> \o identifier

\* the identifier with the placeholder in front (1 or 2 parts) or in place of
\* its first part (3 parts)
new_identifier(identifier) ==
  IF split_count(identifier) \in {1, 2}
    THEN EDW_DB_NAME \o <<".">> \o identifier
    ELSE EDW_DB_NAME \o <<".">> \o after_first_dot(identifier)

\* a faulty prefix: canonical whatever the matched prefix holds
new_prefix_canonical(prefix, statement_type) == CREATE_OR_REPLACE \o statement_type

\* 'CREATE OR REPLACE {statement_type} ' unless ' or replace ' is in the prefix
new_prefix(prefix, statement_type) ==
  IF ~contains(lower(prefix), or_replace)
    THEN CREATE_OR_REPLACE \o statement_type
    ELSE prefix

\* a faulty rewrite: without the test on the number of parts
rewrite_header_any_parts(line, match, statement_type) ==
  IF ~match.found THEN line
  ELSE CREATE_OR_REPLACE \o statement_type
         \o EDW_DB_NAME \o <<".">> \o match.identifier \o match.suffix

\* the rewritten line of a match; the line itself when the identifier has
\* more than three parts
rewrite_header(line, match, statement_type) ==
  IF ~match.found THEN line
  ELSE IF split_count(match.identifier) \in {1, 2, 3}
         THEN new_prefix(match.prefix, statement_type)
                \o new_identifier(match.identifier) \o match.suffix
         ELSE line

\* 'VIEW' if 'view' in prefix.lower() else 'TABLE'
statement_type_of(match) ==
  IF match.found /\ contains(lower(match.prefix), kw_view) THEN VIEW_ ELSE TABLE_

rewrite_statement(line, match) == rewrite_header(line, match, statement_type_of(match))

\* combined_4 DDLFormatter._process_create_statement
_process_create_statement(line) == rewrite_statement(line, create_statement_regex(line))

\* combined_5 DDLFormatter._process_create_table_line
_process_create_table_line(line) == rewrite_header(line, create_table_regex(line), TABLE_)

\* combined_5 DDLFormatter._process_create_view_line
_process_create_view_line(line) == rewrite_header(line, create_view_regex(line), VIEW_)

----------------------------------------------------------------------------
(* 4.3 Comma rewriting of a column line.                                   *)

\* a faulty pattern: r',$', which leaves a comma that has whitespace after it
strip_comma_at_end(line) ==
  IF endswith(line, ",") THEN Slice(line, 1, Len(line) - 1) ELSE line

\* re.sub(r',\s*$', '', line): a comma followed only by whitespace goes,
\* with that whitespace
strip_trailing_comma(line) ==
  LET r == rstrip(line)
  IN  IF endswith(r, ",") THEN Slice(r, 1, Len(r) - 1) ELSE line

\* a faulty comma: followed by a space
leading_comma_spaced(line) ==
  LET stripped == lstrip(line)
      indent   == Slice(line, 1, Len(line) - Len(stripped))
  IN  indent \o <<",", " ">> \o stripped

\* f"{indent},{stripped}"
leading_comma(line) ==
  LET stripped == lstrip(line)
      indent   == Slice(line, 1, Len(line) - Len(stripped))
  IN  indent \o <<",">> \o stripped

----------------------------------------------------------------------------
(* Input documents.                                                        *)

\* longest document built freely from CoreLines
MaxLines == 3

\* longest document handed to a formatter that has already formatted one
MaxSecondLines == 2

\* lines of column blocks: a block start, column lines with and without a
\* trailing comma, a block end, a blank line, an indented CREATE header
CoreLines ==
  { <<"t"," ","(">>,
    <<" "," ","a",",">>,
    <<" "," ","c">>,
    <<")">>,
    <<>>,
    <<" "," ","c","r","e","a","t","e"," ","t","a","b","l","e"," ","t"," ","(">> }

\* lines with keywords as whole words and inside identifiers, and a placeholder
WordLines ==
  { <<"o","r","d","e","r","i","d"," ","i","n","t">>,
    <<"o","r","d","e","r","_","i","d"," ","I","N","T">>,
    <<"o","r","d","e","r"," ","b","y"," ","x">>,
    <<"s","e","l","e","c","t","*","f","r","o","m"," ","t">>,
    <<"I","n","t","8"," ","i","n","t","o">>,
    <<"x"," ","{","{","E","D","W","_","D","B","_","N","A","M","E","}","}">> }

\* CREATE headers: indent CREATE gap KIND [IF NOT EXISTS] identifier suffix
HeaderParts ==
  [ indent : { <<>>, <<" "," ">> },
    create : { <<"c","r","e","a","t","e">>, <<"C","R","E","A","T","E">> },
    gap    : { <<" ">>,
               <<" ","o","r"," ","r","e","p","l","a","c","e"," ">>,
               <<" ","O","R"," ","R","E","P","L","A","C","E"," ">>,
               <<"\t","o","r"," ","r","e","p","l","a","c","e"," ">> },
    kind   : { <<"t","a","b","l","e">>, <<"V","I","E","W">> },
    ifne   : { <<>>, <<" ","i","f"," ","n","o","t"," ","e","x","i","s","t","s">> },
    ident  : { <<"t">>, <<"s",".","t">>, <<"d",".","s",".","t">>,
               <<"a",".","d",".","s",".","t">> },
    suffix : { <<>>, <<" ","(">>, <<" ","a","s">> } ]

HeaderLine(h) ==
  h.indent \o h.create \o h.gap \o h.kind \o h.ifne \o <<" ">> \o h.ident \o h.suffix

HeaderLines == {HeaderLine(h) : h \in HeaderParts}

\* the column block of the worked example
NameBlock ==
  << <<"N","A","M","E"," ","(">>,
     <<" "," ","a"," ","I","N","T",",">>,
     <<" "," ","b"," ","I","N","T",",">>,
     <<" "," ","c"," ","I","N","T">>,
     <<")">> >>

\* documents of particular shapes: a column line that is only a comma; a
\* parenthesis opened and closed inside a block; two blocks, the second with a
\* blank line before its first column; a TABLE header with the letters of VIEW
\* before TABLE; column lines with a space after the comma, a comma inside and
\* a tab for indentation
LoneComma ==
  << <<"t"," ","(">>,
     <<" "," ",",">> >>

NestedParens ==
  << <<"t"," ","(">>,
     <<" "," ","a"," ","(">>,
     <<" "," ",")",",">>,
     <<" "," ","b">>,
     <<")">> >>

TwoBlocks ==
  << <<"t"," ","(">>,
     <<" "," ","a",",">>,
     <<")">>,
     <<"u"," ","(">>,
     <<>>,
     <<" "," ","c">>,
     <<" "," ","d">> >>

ViewInPrefix ==
  << <<"c","r","e","a","t","e"," ","v","i","e","w","x"," ","t","a","b","l","e"," ","t">> >>

CommaShapes ==
  << <<"t"," ","(">>,
     <<" "," ","a",","," ">>,
     <<" "," ","b",",","c",",">>,
     <<"\t","d">> >>

EdgeDocuments == {LoneComma, NestedParens, TwoBlocks, ViewInPrefix, CommaShapes}

SeqsUpTo(S, n) == UNION {[1..k -> S] : k \in 1..n}

\* ddl.split('\n') never returns an empty list: a document has at least one line
Documents ==
  SeqsUpTo(CoreLines, MaxLines)
    \cup {<<l>> : l \in WordLines \cup HeaderLines}
    \cup {NameBlock}
    \cup EdgeDocuments

SecondDocuments == SeqsUpTo(CoreLines, MaxSecondLines)

----------------------------------------------------------------------------
(* The formatter.                                                          *)

VARIABLES
  variant,            \* which source file's DDLFormatter this is
  pc,                 \* "idle": constructed; "line": at `for line in lines`;
                      \* "columns": at the block tests; "done": returned
  lines,              \* ddl.split('\n')
  idx,                \* 1-based index of the loop's current line
  line,               \* the loop's `line`
  stripped_line,      \* the loop's `stripped_line`
  inside_columns,     \* combined_4: local of format; combined_5: self.inside_columns
  first_column,       \* combined_4: local of format; combined_5: self.first_column
  transformed_lines,  \* the emitted lines
  origin,             \* for each emitted line, the index of the line it came from
  reformat,           \* this call's ddl is the text the previous call returned
  thread_calls,       \* for each thread of the GUI, its call of self.formatter.format
  thread_flags,       \* for each call, its inside_columns and first_column
  cli                 \* a run of the command line, or of the GUI's folder job

\* the variables of one formatter called from one thread
format_vars ==
  <<variant, pc, lines, idx, line, stripped_line, inside_columns, first_column,
    transformed_lines, origin, reformat>>

\* the variables of what lies around it
outside_format == <<thread_calls, thread_flags, cli>>

vars ==
  <<variant, pc, lines, idx, line, stripped_line, inside_columns, first_column,
    transformed_lines, origin, reformat, thread_calls, thread_flags, cli>>

\* no run yet
NoRun ==
  [pc |-> "idle", mode |-> "string", input |-> FALSE, output |-> FALSE,
   input_kind |-> "missing", listing |-> {}, unreadable |-> {}, output_ok |-> TRUE,
   todo |-> {}, written |-> {}, console |-> {}]

\* the threads of the GUI that call self.formatter.format: the main thread in
\* convert_string, the thread browse_folder starts
Threads == {"convert_string", "_process_folder_thread"}

\* a thread that is not in a call
NoCall == [pc |-> "idle", lines |-> <<>>, idx |-> 1, transformed_lines |-> <<>>,
           overlapped |-> FALSE]

\* the flags as lines 75-76 set them
FreshFlags == [inside_columns |-> FALSE, first_column |-> TRUE]

Variants == {"combined_2", "combined_4", "combined_5"}

\* DDLFormatter() : combined_5's __init__ sets the two flags; combined_4's
\* format sets them itself at each call
Init ==
  /\ variant \in Variants
  /\ pc = "idle"
  /\ lines = <<>>
  /\ idx = 1
  /\ line = <<>>
  /\ stripped_line = <<>>
  /\ inside_columns = FALSE
  /\ first_column = TRUE
  /\ transformed_lines = <<>>
  /\ origin = <<>>
  /\ reformat = FALSE
  /\ thread_calls = [t \in Threads |-> NoCall]
  /\ thread_flags = [t \in Threads |-> FreshFlags]
  /\ cli = NoRun

\* the state a document-level call starts its loop in
Enter(ddl_lines, again) ==
  /\ lines' = ddl_lines
  /\ idx' = 1
  /\ line' = <<>>
  /\ stripped_line' = <<>>
  /\ transformed_lines' = <<>>
  /\ origin' = <<>>
  /\ reformat' = again
  /\ pc' = "line"
  /\ IF variant = "combined_5"
       THEN UNCHANGED <<inside_columns, first_column>>
       ELSE inside_columns' = FALSE /\ first_column' = TRUE
  /\ UNCHANGED variant
  /\ UNCHANGED outside_format

\* formatter.format(ddl) / formatter.move_commas_to_start(ddl)
Call ==
  /\ pc \in {"idle", "done"}
  /\ \E d \in (IF pc = "idle" THEN Documents ELSE SecondDocuments) : Enter(d, FALSE)

\* the same formatter is handed the text it has just returned
Reformat ==
  /\ pc = "done"
  /\ ~reformat
  /\ Enter(transformed_lines, TRUE)

\* a new DDLFormatter() replaces the used one (combined_5's module-level
\* move_commas_to_start builds one for every call)
NewFormatter ==
  /\ pc = "done"
  /\ pc' = "idle"
  /\ inside_columns' = FALSE
  /\ first_column' = TRUE
  /\ lines' = <<>>
  /\ idx' = 1
  /\ line' = <<>>
  /\ stripped_line' = <<>>
  /\ transformed_lines' = <<>>
  /\ origin' = <<>>
  /\ reformat' = FALSE
  /\ UNCHANGED variant
  /\ UNCHANGED outside_format

\* the loop's `line` and `stripped_line` at the block tests: a line a header
\* pattern matched is replaced and stripped again
prepared(raw, cased, matched, new) ==
  IF matched THEN [line |-> new, stripped_line |-> strip(new)]
             ELSE [line |-> cased, stripped_line |-> strip(raw)]

\* a faulty line 82: the whole line in upper case
recase_whole_line(raw) == upper(raw)

\* line 82: keyword case, then the placeholder literal
recase(raw) == replace(_uppercase_keywords(raw), EDW_DB_NAME, edw_db_name)

Canonicalize4(raw, cased) ==
  prepared(raw, cased, create_statement_regex(cased).found,
           _process_create_statement(cased))

\* combined_4 lines 79-86: keyword case, placeholder, CREATE header
Prepare4(raw) == Canonicalize4(raw, recase(raw))

\* combined_5 lines 77-84: CREATE TABLE header, else CREATE VIEW header
Prepare5(raw) ==
  IF create_table_regex(raw).found
    THEN prepared(raw, raw, TRUE, _process_create_table_line(raw))
    ELSE prepared(raw, raw, create_view_regex(raw).found,
                  _process_create_view_line(raw))

\* combined_2 line 16: the line as it is
Prepare2(raw) == prepared(raw, raw, FALSE, raw)

\* the loop's `line` and `stripped_line` at the block tests
PrepareLine(raw) ==
  CASE variant = "combined_2" -> Prepare2(raw)
    [] variant = "combined_4" -> Prepare4(raw)
    [] variant = "combined_5" -> Prepare5(raw)

\* what Prepare leaves in `line` and `stripped_line`
Prepared(p) ==
  /\ line' = p.line
  /\ stripped_line' = p.stripped_line

\* the top of the loop body, up to the block tests
Prepare ==
  /\ pc = "line"
  /\ idx <= Len(lines)
  /\ Prepared(PrepareLine(lines[idx]))
  /\ pc' = "columns"
  /\ UNCHANGED <<variant, lines, idx, inside_columns, first_column,
                 transformed_lines, origin, reformat>>
  /\ UNCHANGED outside_format

\* a faulty loop: the lines are appended and the same input line is taken again
Emit_same_line(out) ==
  /\ transformed_lines' = transformed_lines \o out
  /\ origin' = origin \o [k \in 1..Len(out) |-> idx]
  /\ idx' = idx
  /\ pc' = "line"
  /\ line' = <<>>
  /\ stripped_line' = <<>>
  /\ UNCHANGED <<variant, lines, reformat>>
  /\ UNCHANGED outside_format

\* append the lines emitted for the current input line and go to the next one
Emit(out) ==
  /\ transformed_lines' = transformed_lines \o out
  /\ origin' = origin \o [k \in 1..Len(out) |-> idx]
  /\ idx' = idx + 1
  /\ pc' = "line"
  /\ line' = <<>>
  /\ stripped_line' = <<>>
  /\ UNCHANGED <<variant, lines, reformat>>
  /\ UNCHANGED outside_format

\* `if not inside_columns and stripped_line.rstrip().endswith('(')`;
\* combined_2: `if stripped_line.endswith('(')`
is_block_start(inside, stripped) ==
  /\ variant = "combined_2" \/ ~inside
  /\ endswith(rstrip(stripped), "(")

IsBlockStart == is_block_start(inside_columns, stripped_line)

\* `if inside_columns and stripped_line.startswith(')')`;
\* combined_2: `if stripped_line.startswith(')')`
is_block_end(inside, stripped) ==
  /\ variant = "combined_2" \/ inside
  /\ startswith(stripped, ")")

IsBlockEnd == is_block_end(inside_columns, stripped_line)

\* `if inside_columns and stripped_line`; combined_2: `if inside_columns`
is_column_line(inside, stripped) ==
  /\ inside
  /\ variant = "combined_2" \/ stripped # <<>>

IsColumnLine == is_column_line(inside_columns, stripped_line)

\* the two lines a block start is split into; combined_4 leaves out an empty
\* first one, combined_5 does not
split_paren(l, keep_empty) ==
  LET paren_pos        == rfind(l, "(")
      create_line_part == rstrip(Slice(l, 1, paren_pos - 1))
      indent           == Slice(l, 1, Len(l) - Len(lstrip(l)))
  IN  (IF create_line_part # <<>> \/ keep_empty THEN <<create_line_part>> ELSE <<>>)
        \o <<indent \o <<"(">>>>

\* the lines a block start emits: combined_2 leaves the line as it is, the
\* others split the "(" off
block_start_lines(l) ==
  IF variant = "combined_2" THEN <<l>> ELSE split_paren(l, variant = "combined_5")

\* `first_column = True` at a block start; combined_2 has no such line
flag_at_block_start(first) == IF variant = "combined_2" THEN first ELSE TRUE

block_start_flag(first) == first_column' = flag_at_block_start(first)

BlockStart ==
  /\ pc = "columns"
  /\ IsBlockStart
  /\ inside_columns' = TRUE
  /\ block_start_flag(first_column)
  /\ Emit(block_start_lines(line))

BlockEnd ==
  /\ pc = "columns"
  /\ ~IsBlockStart
  /\ IsBlockEnd
  /\ inside_columns' = FALSE
  /\ UNCHANGED first_column
  /\ Emit(<<line>>)

\* the line of a column: the first one as it is, the others behind a comma
column_line(l, first) ==
  IF first THEN strip_trailing_comma(l)
           ELSE leading_comma(strip_trailing_comma(l))

ColumnLine ==
  /\ pc = "columns"
  /\ ~IsBlockStart
  /\ ~IsBlockEnd
  /\ IsColumnLine
  /\ first_column' = FALSE
  /\ UNCHANGED inside_columns
  /\ Emit(<<column_line(line, first_column)>>)

PassThrough ==
  /\ pc = "columns"
  /\ ~IsBlockStart
  /\ ~IsBlockEnd
  /\ ~IsColumnLine
  /\ UNCHANGED <<inside_columns, first_column>>
  /\ Emit(<<line>>)

\* `return '\n'.join(transformed_lines)`
Return ==
  /\ pc = "line"
  /\ idx > Len(lines)
  /\ pc' = "done"
  /\ UNCHANGED <<variant, lines, idx, line, stripped_line, inside_columns,
                 first_column, transformed_lines, origin, reformat>>
  /\ UNCHANGED outside_format

\* one iteration of the loop as a whole: the lines it emits and the two flags
\* it leaves, for a line prepared as p
iteration(p, inside, first) ==
  IF is_block_start(inside, p.stripped_line)
    THEN [out |-> block_start_lines(p.line), inside_columns |-> TRUE,
          first_column |-> flag_at_block_start(first)]
  ELSE IF is_block_end(inside, p.stripped_line)
    THEN [out |-> <<p.line>>, inside_columns |-> FALSE, first_column |-> first]
  ELSE IF is_column_line(inside, p.stripped_line)
    THEN [out |-> <<column_line(p.line, first)>>, inside_columns |-> inside,
          first_column |-> FALSE]
  ELSE [out |-> <<p.line>>, inside_columns |-> inside, first_column |-> first]

\* the lines the loop emits for the lines of doc from index i on
RECURSIVE format_from(_, _, _, _)
format_rest(doc, i, step) ==
  step.out \o format_from(doc, i + 1, step.inside_columns, step.first_column)

format_from(doc, i, inside, first) ==
  IF i > Len(doc) THEN <<>>
  ELSE format_rest(doc, i, iteration(PrepareLine(doc[i]), inside, first))

\* the lines of a call that starts with both flags fresh
format_lines(doc) == format_from(doc, 1, FALSE, TRUE)

Next ==
  \/ Call
  \/ Reformat
  \/ NewFormatter
  \/ Prepare
  \/ BlockStart
  \/ BlockEnd
  \/ ColumnLine
  \/ PassThrough
  \/ Return

Spec == Init /\ [][Next]_vars

TypeOK ==
  /\ variant \in Variants
  /\ pc \in {"idle", "line", "columns", "done"}
  /\ idx \in 1..(Len(lines) + 1)
  /\ inside_columns \in BOOLEAN
  /\ first_column \in BOOLEAN
  /\ Len(origin) = Len(transformed_lines)

----------------------------------------------------------------------------
(* The GUI of combined_4: one DDLFormatter, self.formatter, called from the *)
(* main thread and from the threads browse_folder starts.                  *)

\* longest document a thread formats
MaxThreadLines == 2

ThreadLines ==
  { <<"t"," ","(">>,
    <<" "," ","a",",">>,
    <<")">> }

ThreadDocuments == SeqsUpTo(ThreadLines, MaxThreadLines)

\* a faulty formatter: the two flags are fields of self.formatter, one pair for
\* every thread that calls it
flags_of_instance(t) == "convert_string"

\* where a call keeps inside_columns and first_column: in its own locals
flags_of(t) == t

\* another thread is inside a call
Overlaps(t) == \E u \in Threads \ {t} : thread_calls[u].pc = "line"

\* the calls of the other threads have another thread's step in between
NoteOverlap(t, calls) ==
  [u \in Threads |->
     IF u # t /\ calls[u].pc = "line" THEN [calls[u] EXCEPT !.overlapped = TRUE]
                                       ELSE calls[u]]

\* self.formatter.format(ddl) is entered
ThreadCall(t) ==
  /\ thread_calls[t].pc \in {"idle", "done"}
  /\ \E d \in ThreadDocuments :
       thread_calls' =
         [thread_calls EXCEPT ![t] = [pc |-> "line", lines |-> d, idx |-> 1,
                                      transformed_lines |-> <<>>,
                                      overlapped |-> FALSE]]
  /\ thread_flags' = [thread_flags EXCEPT ![flags_of(t)] = FreshFlags]
  /\ UNCHANGED <<format_vars, cli>>

\* the call after one iteration that emitted step.out
thread_after(call, step) ==
  [call EXCEPT !.idx = @ + 1, !.transformed_lines = @ \o step.out]

thread_step(t, call, flags) ==
  LET step == iteration(PrepareLine(call.lines[call.idx]),
                        flags.inside_columns, flags.first_column)
  IN  /\ thread_calls' =
           NoteOverlap(t, [thread_calls EXCEPT ![t] = thread_after(call, step)])
      /\ thread_flags' =
           [thread_flags EXCEPT ![flags_of(t)] =
              [inside_columns |-> step.inside_columns,
               first_column   |-> step.first_column]]

\* one iteration of the loop in thread t
ThreadLine(t) ==
  /\ thread_calls[t].pc = "line"
  /\ thread_calls[t].idx <= Len(thread_calls[t].lines)
  /\ thread_step(t, thread_calls[t], thread_flags[flags_of(t)])
  /\ UNCHANGED <<format_vars, cli>>

\* the call in thread t returns
ThreadReturn(t) ==
  /\ thread_calls[t].pc = "line"
  /\ thread_calls[t].idx > Len(thread_calls[t].lines)
  /\ thread_calls' = [thread_calls EXCEPT ![t].pc = "done"]
  /\ UNCHANGED thread_flags
  /\ UNCHANGED <<format_vars, cli>>

ThreadsInit == Init /\ variant = "combined_4"

ThreadsNext == \E t \in Threads : ThreadCall(t) \/ ThreadLine(t) \/ ThreadReturn(t)

ThreadsSpec == ThreadsInit /\ [][ThreadsNext]_vars

----------------------------------------------------------------------------
(* The command line (process_cli of combined_4, main of combined_5 and of   *)
(* combined_2) and the folder job of combined_4's GUI.                      *)

sql_extension == <<".","s","q","l">>

formatted_sql == <<"_","f","o","r","m","a","t","t","e","d",".","s","q","l">>

\* `filename.lower().endswith('.sql')`
has_sql_extension(filename) ==
  /\ Len(filename) >= Len(sql_extension)
  /\ SubSeq(lower(filename), Len(filename) - Len(sql_extension) + 1, Len(filename))
       = sql_extension

\* `filename.replace('.sql', '_formatted.sql')`
output_filename(filename) == replace(filename, sql_extension, formatted_sql)

\* line 278 of combined_4, the name the GUI's folder job writes to
gui_output_filename(filename) ==
  IF contains(lower(filename), sql_extension)
    THEN output_filename(filename)
    ELSE filename \o formatted_sql

\* the names a folder can hold
FileNames ==
  { <<"a",".","s","q","l">>,
    <<"B",".","S","Q","L">>,
    <<"c",".","s","q","l",".","s","q","l">>,
    <<"d",".","t","x","t">> }

\* what the files hold
FileText ==
  [n \in FileNames |->
     IF n = <<"a",".","s","q","l">>
       THEN << <<"t"," ","(">>, <<" "," ","a",",">>, <<" "," ","c">>, <<")">> >>
       ELSE << <<"c","r","e","a","t","e"," ","t","a","b","l","e"," ">> \o n >>]

\* the text of --input in string mode, the file of --input in file mode
InputText == << <<"t"," ","(">>, <<" "," ","a",",">> >>

\* the file --output names
OutputPath == <<"o","u","t">>

\* --mode; combined_4 has string for default, the others have none
Modes ==
  IF variant = "combined_4" THEN {"string", "file", "folder", "browse_folder"}
                            ELSE {"none", "string", "file", "folder"}

\* what --input names: nothing, a file, a file that cannot be read, a folder
InputKinds == {"missing", "file", "unreadable", "dir"}

\* the run is started: its arguments and what the file system holds
Invoke ==
  /\ cli.pc = "idle"
  /\ \E mode \in Modes, input \in BOOLEAN, output \in BOOLEAN, kind \in InputKinds,
        listing \in SUBSET FileNames, ok \in BOOLEAN :
       /\ kind = "dir" \/ listing = {}
       /\ \E unreadable \in {{}} \cup {{n} : n \in listing} :
            cli' = [NoRun EXCEPT !.pc = "main", !.mode = mode, !.input = input,
                                 !.output = output, !.input_kind = kind,
                                 !.listing = listing, !.unreadable = unreadable,
                                 !.output_ok = ok]
  /\ UNCHANGED <<format_vars, thread_calls, thread_flags>>

\* the run ends normally, having shown the messages msgs
returned(run, msgs) == [run EXCEPT !.pc = "returned", !.console = @ \cup msgs]

\* an exception leaves main
raised(run) == [run EXCEPT !.pc = "raised"]

\* the file `name` holds the formatted `text` read from `source`
write(run, name, source, text) ==
  [run EXCEPT !.written = {w \in @ : w.name # name}
                            \cup {[name |-> name, source |-> source, text |-> text]}]

Finish(run) ==
  /\ cli' = run
  /\ UNCHANGED <<format_vars, thread_calls, thread_flags>>

\* `if not args.input` (combined_4), `if not args.mode or not args.input`
MissingArguments ==
  /\ cli.pc = "main"
  /\ cli.mode # "browse_folder"
  /\ ~cli.input \/ cli.mode = "none"
  /\ Finish(returned(cli, {"error"}))

\* string mode: the text is formatted; written to --output or printed
StringMode ==
  /\ cli.pc = "main"
  /\ cli.input
  /\ cli.mode = "string"
  /\ Finish(IF ~cli.output THEN returned(cli, {"text"})
            ELSE IF ~cli.output_ok THEN raised(cli)
            ELSE returned(write(cli, OutputPath, OutputPath, format_lines(InputText)),
                          {"info"}))

\* file mode of combined_4: a message when --output is missing; the rest in
\* try ... except FileNotFoundError ... except Exception
file_mode_4(run) ==
  IF ~run.output \/ run.input_kind # "file" \/ ~run.output_ok
    THEN returned(run, {"error"})
    ELSE returned(write(run, OutputPath, OutputPath, format_lines(InputText)), {"info"})

\* file mode of combined_5 and combined_2: ValueError when --output is missing;
\* the output is opened before the input is read, nothing is caught
file_mode_5(run) ==
  IF ~run.output \/ ~run.output_ok THEN raised(run)
  ELSE IF run.input_kind # "file"
    THEN raised(write(run, OutputPath, OutputPath, <<>>))
    ELSE returned(write(run, OutputPath, OutputPath, format_lines(InputText)), {})

FileMode ==
  /\ cli.pc = "main"
  /\ cli.input
  /\ cli.mode = "file"
  /\ Finish(IF variant = "combined_4" THEN file_mode_4(cli) ELSE file_mode_5(cli))

\* the loop over os.listdir is entered
enter_loop(run, msgs) ==
  [run EXCEPT !.pc = "loop", !.console = @ \cup msgs,
              !.todo = {n \in run.listing : has_sql_extension(n)}]

\* folder mode of combined_4: messages for a missing --output and for an
\* input that is no directory
folder_mode_4(run) ==
  IF ~run.output \/ run.input_kind # "dir"
    THEN returned(run, {"error"})
    ELSE enter_loop(run, {"info"})

\* folder mode of combined_5 and combined_2: ValueError when --output is
\* missing, os.listdir raises when the input is no directory
folder_mode_5(run) ==
  IF ~run.output \/ run.input_kind # "dir" THEN raised(run) ELSE enter_loop(run, {})

FolderMode ==
  /\ cli.pc = "main"
  /\ cli.input
  /\ cli.mode = "folder"
  /\ Finish(IF variant = "combined_4" THEN folder_mode_4(cli) ELSE folder_mode_5(cli))

\* browse_folder and _process_folder_thread of combined_4: nothing happens
\* when a dialog is cancelled; everything else is inside try ... except
browse_folder(run) ==
  IF ~run.input \/ ~run.output THEN returned(run, {})
  ELSE IF run.input_kind # "dir" THEN returned(run, {"error"})
  ELSE IF {n \in run.listing : has_sql_extension(n)} = {} THEN returned(run, {"info"})
  ELSE enter_loop(run, {})

BrowseFolder ==
  /\ cli.pc = "main"
  /\ cli.mode = "browse_folder"
  /\ Finish(browse_folder(cli))

\* the run with one file less to do
taken(run, filename) == [run EXCEPT !.todo = @ \ {filename}]

\* one file of the loop in process_cli: read, formatted, written
folder_file_4(run, filename) ==
  IF filename \in run.unreadable \/ ~run.output_ok THEN raised(run)
  ELSE write(taken(run, filename), output_filename(filename), filename,
             format_lines(FileText[filename]))

\* one file of the loop in process_folder: the output is opened, then the
\* input is read
folder_file_5(run, filename) ==
  IF ~run.output_ok THEN raised(run)
  ELSE IF filename \in run.unreadable
    THEN raised(write(run, output_filename(filename), filename, <<>>))
    ELSE write(taken(run, filename), output_filename(filename), filename,
               format_lines(FileText[filename]))

\* one file of the loop in _process_folder_thread, inside try ... except
folder_file_gui(run, filename) ==
  IF filename \in run.unreadable \/ ~run.output_ok THEN returned(run, {"error"})
  ELSE write(taken(run, filename), gui_output_filename(filename), filename,
             format_lines(FileText[filename]))

folder_file(run, filename) ==
  IF run.mode = "browse_folder" THEN folder_file_gui(run, filename)
  ELSE IF variant = "combined_4" THEN folder_file_4(run, filename)
  ELSE folder_file_5(run, filename)

\* the loop takes a file, in the order os.listdir gives
FolderFile ==
  /\ cli.pc = "loop"
  /\ \E filename \in cli.todo : Finish(folder_file(cli, filename))

\* the loop is over
FolderDone ==
  /\ cli.pc = "loop"
  /\ cli.todo = {}
  /\ Finish(returned(cli, IF variant = "combined_4" THEN {"info"} ELSE {}))

CliNext ==
  \/ Invoke
  \/ MissingArguments
  \/ StringMode
  \/ FileMode
  \/ FolderMode
  \/ BrowseFolder
  \/ FolderFile
  \/ FolderDone

CliSpec == Init /\ [][CliNext]_vars

----------------------------------------------------------------------------
(* Vocabulary of the properties.                                           *)

\* the leading whitespace of a line
indent_of(l) == Slice(l, 1, LeadingSpaces(l))

\* the maximal run of word characters around index i of s is a keyword
InKeyword(s, i) ==
  /\ IsWordChar(s[i])
  /\ LET from == SetMin({a \in 1..i : \A k \in a..i : IsWordChar(s[k])})
         to   == SetMax({b \in i..Len(s) : \A k \in i..b : IsWordChar(s[k])})
     IN  lower(SubSeq(s, from, to)) \in sql_keywords

\* index i of s lies in an occurrence of the placeholder literal {{EDW_DB_NAME}}
InPlaceholder(s, i) ==
  \E p \in 1..i : i < p + Len(EDW_DB_NAME) /\ OccursAt(s, p, EDW_DB_NAME)

\* out is s with every whole-word keyword in upper case and nothing else changed
KeywordsUppercased(s, out) ==
  /\ Len(out) = Len(s)
  /\ \A i \in 1..Len(s) :
       out[i] = IF InKeyword(s, i) THEN upper_char(s[i]) ELSE s[i]

\* out differs from s at most in the case of letters of whole-word keywords
KeywordCaseOnly(s, out) ==
  /\ Len(out) = Len(s)
  /\ \A i \in 1..Len(s) :
       \/ out[i] = s[i]
       \/ InKeyword(s, i) /\ lower_char(out[i]) = lower_char(s[i])

\* ... or in the case of the letters of a placeholder {{EDW_DB_NAME}}, which
\* become lower case
KeywordOrPlaceholderCaseOnly(s, out) ==
  /\ Len(out) = Len(s)
  /\ \A i \in 1..Len(s) :
       \/ out[i] = s[i]
       \/ InKeyword(s, i) /\ lower_char(out[i]) = lower_char(s[i])
       \/ InPlaceholder(s, i) /\ out[i] = lower_char(s[i])

\* the parts a header line was built from
HeaderOf == [l \in HeaderLines |-> CHOOSE h \in HeaderParts : HeaderLine(h) = l]

\* the header's words in upper case, as the keyword normalizer leaves them
CasedPrefix(h) == upper(h.create \o h.gap \o h.kind \o h.ifne) \o <<" ">>

CanonicalPrefix(h) ==
  <<"C","R","E","A","T","E"," ","O","R"," ","R","E","P","L","A","C","E"," ">>
    \o upper(h.kind) \o <<" ">>

\* the prefix holds the words OR REPLACE
HasOrReplace(h) ==
  contains(upper(h.gap), <<"O","R"," ","R","E","P","L","A","C","E">>)

\* the prefix holds OR REPLACE with a space character on each side
HasSpacedOrReplace(h) ==
  contains(upper(h.gap), <<" ","O","R"," ","R","E","P","L","A","C","E"," ">>)

Placeholder == <<"{","{","E","D","W","_","D","B","_","N","A","M","E","}","}">>

\* the lines emitted for input line i
EmittedFor(i) == {k \in DOMAIN origin : origin[k] = i}

CountChar(l, c) == Cardinality({i \in 1..Len(l) : l[i] = c})

\* opening minus closing parentheses in the first n lines of doc
RECURSIVE ParenDepth(_, _)
ParenDepth(doc, n) ==
  IF n = 0 THEN 0
  ELSE ParenDepth(doc, n - 1) + CountChar(doc[n], "(") - CountChar(doc[n], ")")

\* every parenthesis of the document is closed, and none closes before it opens
MatchedParens(doc) ==
  /\ \A n \in DOMAIN doc : ParenDepth(doc, n) >= 0
  /\ ParenDepth(doc, Len(doc)) = 0

\* no line of the document ends in a comma
NoTrailingComma(doc) == \A n \in DOMAIN doc : ~endswith(rstrip(doc[n]), ",")

\* a line opens a block that no later line closes
Unterminated(doc) ==
  \E i \in DOMAIN doc :
    /\ endswith(strip(doc[i]), "(")
    /\ \A j \in i..Len(doc) : ~startswith(strip(doc[j]), ")")

----------------------------------------------------------------------------
(* Properties.                                                             *)

NameBlockClaimed ==
  << <<"N","A","M","E">>,
     <<"(">>,
     <<" "," ","a"," ","I","N","T">>,
     <<" "," ",","," ","b"," ","I","N","T">>,
     <<" "," ",","," ","c"," ","I","N","T">>,
     <<")">> >>

NameBlockFormatted ==
  << <<"N","A","M","E">>,
     <<"(">>,
     <<" "," ","a"," ","I","N","T">>,
     <<" "," ",",","b"," ","I","N","T">>,
     <<" "," ",",","c"," ","I","N","T">>,
     <<")">> >>

\* C1 as stated: format of the block NAME ( / a INT, / b INT, / c INT / )
\* returns NAME / ( / a INT / , b INT / , c INT / ), each comma followed by a
\* space.
C1_NameBlockAsStated ==
  (variant = "combined_4" /\ pc = "done" /\ lines = NameBlock)
    => transformed_lines = NameBlockClaimed

\* C1 amended: format of that block returns the six lines NAME / ( / a INT /
\* ,b INT / ,c INT / ) : paren on its own line, first column unprefixed, each
\* later column behind a comma that touches its text, no other comma.
C1_NameBlock ==
  (variant = "combined_4" /\ pc = "done" /\ lines = NameBlock)
    => transformed_lines = NameBlockFormatted

C1_Witness ==
  /\ variant = "combined_4"
  /\ pc = "done"
  /\ lines = NameBlock
  /\ Len(transformed_lines) = Len(NameBlock) + 1

\* C2: formatting an already formatted text with matched parentheses and no
\* trailing comma returns it unchanged, line for line.
C2_FixedPoint ==
  (/\ variant = "combined_4"
   /\ pc = "done"
   /\ reformat
   /\ MatchedParens(lines)
   /\ NoTrailingComma(lines))
    => transformed_lines = lines

\* C3: every document-level call starts its loop outside any column block and
\* before the first column, whatever the formatter formatted before.
C3_FreshState ==
  (pc = "line" /\ idx = 1) => (~inside_columns /\ first_column)

\* the header a state is about: the line under the block tests, or the only
\* line of the document
OneOrTwoParts(l) == l \in HeaderLines /\ split_count(HeaderOf[l].ident) <= 2

\* prefix + placeholder + "." + identifier, the prefix kept or canonical
Requalified(h, kept) ==
  (IF kept THEN CasedPrefix(h) ELSE CanonicalPrefix(h))
    \o Placeholder \o <<".">> \o h.ident

\* the header is alone in its document, not indented, and ends in " ("
OpensBlockAlone(l) ==
  /\ lines = <<l>>
  /\ HeaderOf[l].suffix = <<" ","(">>
  /\ HeaderOf[l].indent = <<>>

\* C4 as stated: for a header whose identifier has 1 or 2 parts the canonicalizer
\* returns prefix + placeholder + "." + identifier + suffix, the prefix being
\* CREATE OR REPLACE {TYPE} when the matched prefix held no OR REPLACE and the
\* matched prefix when it did; and a header ending in " (" is emitted as that
\* line without the "(" and then "(" on a line of its own.
C4_HeaderAsStated ==
  /\ (variant = "combined_4" /\ pc = "columns" /\ OneOrTwoParts(lines[idx]))
       => LET h == HeaderOf[lines[idx]]
          IN  line = Requalified(h, HasOrReplace(h)) \o upper(h.suffix)
  /\ (/\ variant = "combined_4" /\ pc = "done" /\ Len(lines) = 1
      /\ OneOrTwoParts(lines[1]) /\ OpensBlockAlone(lines[1]))
       => LET h == HeaderOf[lines[1]]
          IN  transformed_lines = <<Requalified(h, HasOrReplace(h)), <<"(">>>>

\* C4 amended: the same, the prefix being kept only when, in lower case, it
\* holds " or replace " with a space character on each side (OR REPLACE set
\* off by a tab is replaced by the canonical prefix too).
C4_Header ==
  /\ (variant = "combined_4" /\ pc = "columns" /\ OneOrTwoParts(lines[idx]))
       => LET h == HeaderOf[lines[idx]]
          IN  line = Requalified(h, HasSpacedOrReplace(h)) \o upper(h.suffix)
  /\ (/\ variant = "combined_4" /\ pc = "done" /\ Len(lines) = 1
      /\ OneOrTwoParts(lines[1]) /\ OpensBlockAlone(lines[1]))
       => LET h == HeaderOf[lines[1]]
          IN  transformed_lines = <<Requalified(h, HasSpacedOrReplace(h)), <<"(">>>>

\* CREATE table s.t ( has become CREATE OR REPLACE TABLE {{EDW_DB_NAME}}.s.t and (
C4_Witness ==
  /\ variant = "combined_4"
  /\ pc = "done"
  /\ lines = << <<"C","R","E","A","T","E"," ","t","a","b","l","e"," ",
                  "s",".","t"," ","(">> >>
  /\ Len(transformed_lines) = 2
  /\ contains(transformed_lines[1], Placeholder \o <<".","s",".","t">>)

\* C5: for a header whose identifier has 3 parts db.schema.table the line is
\* prefix + placeholder + ".schema.table" + suffix: the first part is dropped
\* and the last two are kept in order.
C5_ThreeParts ==
  (/\ variant = "combined_4" /\ pc = "columns"
   /\ lines[idx] \in HeaderLines
   /\ HeaderOf[lines[idx]].ident = <<"d",".","s",".","t">>)
    => LET h == HeaderOf[lines[idx]]
       IN  line = (IF HasSpacedOrReplace(h) THEN CasedPrefix(h)
                                            ELSE CanonicalPrefix(h))
                    \o Placeholder \o <<".","s",".","t">> \o upper(h.suffix)

C5_Witness ==
  /\ variant = "combined_4"
  /\ pc = "columns"
  /\ lines[idx] = <<"c","r","e","a","t","e"," ","t","a","b","l","e"," ",
                    "d",".","s",".","t"," ","(">>
  /\ line = <<"C","R","E","A","T","E"," ","O","R"," ","R","E","P","L","A","C","E"," ",
              "T","A","B","L","E"," ">> \o Placeholder
              \o <<".","s",".","t"," ","(">>

\* C6: for a header whose identifier has more than 3 parts the canonicalizer
\* returns the line it was given: no OR REPLACE, no placeholder, nothing
\* dropped; format emits that line with only its keywords in upper case.
C6_TooManyParts ==
  (/\ variant = "combined_4" /\ pc = "columns"
   /\ lines[idx] \in HeaderLines
   /\ split_count(HeaderOf[lines[idx]].ident) > 3)
    => LET h == HeaderOf[lines[idx]]
       IN  /\ line = h.indent \o CasedPrefix(h) \o h.ident \o upper(h.suffix)
           /\ _process_create_statement(line) = line
           /\ _process_create_statement(lines[idx]) = lines[idx]

C6_Witness ==
  /\ variant = "combined_4"
  /\ pc = "columns"
  /\ lines[idx] = <<" "," ","c","r","e","a","t","e"," ","t","a","b","l","e"," ",
                    "a",".","d",".","s",".","t"," ","(">>
  /\ line = <<" "," ","C","R","E","A","T","E"," ","T","A","B","L","E"," ",
              "a",".","d",".","s",".","t"," ","(">>

\* the line under the block tests is outside any column block, does not end
\* in "(" and is no CREATE TABLE/VIEW header
PlainLine ==
  /\ variant = "combined_4"
  /\ pc = "columns"
  /\ ~inside_columns
  /\ ~endswith(strip(lines[idx]), "(")
  /\ ~create_statement_regex(lines[idx]).found

\* C7 as stated: such a line is emitted as exactly one line, equal to the input
\* line except for the case of letters in whole-word keywords.
C7_PlainLineAsStated ==
  [][PlainLine =>
       \E out \in {line} :
         /\ transformed_lines' = Append(transformed_lines, out)
         /\ KeywordCaseOnly(lines[idx], out)]_vars

\* C7 amended: such a line is emitted as exactly one line, equal to the input
\* line except for the case of letters in whole-word keywords and in the
\* placeholder {{EDW_DB_NAME}}, which is emitted as {{edw_db_name}}.
C7_PlainLine ==
  [][PlainLine =>
       \E out \in {line} :
         /\ transformed_lines' = Append(transformed_lines, out)
         /\ KeywordOrPlaceholderCaseOnly(lines[idx], out)]_vars

\* "order by x" has been emitted as "ORDER BY x"
C7_Witness ==
  /\ variant = "combined_4"
  /\ pc = "done"
  /\ lines = << <<"o","r","d","e","r"," ","b","y"," ","x">> >>
  /\ transformed_lines = << <<"O","R","D","E","R"," ","B","Y"," ","x">> >>

\* C8: the keyword normalizer puts in upper case exactly the keywords that
\* stand as whole words; a keyword inside a longer identifier, and all other
\* text, is unchanged, and the length of the line is unchanged.
C8_WholeWords ==
  (variant = "combined_4" /\ pc = "columns")
    => /\ KeywordsUppercased(lines[idx], _uppercase_keywords(lines[idx]))
       /\ (~create_statement_regex(lines[idx]).found
             /\ ~contains(lines[idx], EDW_DB_NAME))
            => KeywordsUppercased(lines[idx], line)

\* "orderid int" has become "orderid INT"
C8_Witness ==
  /\ variant = "combined_4"
  /\ pc = "columns"
  /\ lines[idx] = <<"o","r","d","e","r","i","d"," ","i","n","t">>
  /\ line = <<"o","r","d","e","r","i","d"," ","I","N","T">>

\* the state at the end of a pass: every line was visited once, in order,
\* and a block that is never closed leaves inside_columns true
PassComplete ==
  /\ idx = Len(lines) + 1
  /\ \A i \in DOMAIN lines : EmittedFor(i) # {}
  /\ \A k \in DOMAIN origin : k > 1 => origin[k - 1] <= origin[k]
  /\ (variant = "combined_4" /\ Unterminated(lines)) => inside_columns

\* steps a call still has to take: two for each line left, one to return
Remaining ==
  IF pc \in {"idle", "done"} THEN 0
  ELSE 2 * (Len(lines) + 1 - idx) + (IF pc = "line" THEN 1 ELSE 0)

\* a step of a call leaves fewer steps to take
Progress == pc \in {"line", "columns"} => (Remaining' < Remaining /\ Remaining' >= 0)

\* C9: format is total: whatever the document, every step of a call brings it
\* nearer its return, and it returns having visited each line once, in order;
\* a block that is never closed leaves inside_columns true at the end.
C9_Total ==
  /\ [](pc = "done" => PassComplete)
  /\ [][Progress]_vars

\* a document whose block is never closed has been formatted to the end
C9_Witness ==
  /\ variant = "combined_4"
  /\ pc = "done"
  /\ Unterminated(lines)
  /\ Len(lines) > 1
  /\ inside_columns

\* C10: every emitted line has the leading whitespace of the input line it
\* was produced from, the "(" line of a block start included.
C10_Indentation ==
  variant = "combined_4" =>
    \A k \in DOMAIN transformed_lines :
      indent_of(transformed_lines[k]) = indent_of(lines[origin[k]])

\* a line of whitespace only
IsBlank(l) == strip(l) = <<>>

\* the number of blank lines a document starts with
LeadingBlank(doc) ==
  SetMax({n \in 0..Len(doc) : \A k \in 1..n : IsBlank(doc[k])})

\* the number of blank lines a document ends with
TrailingBlank(doc) ==
  SetMax({n \in 0..Len(doc) : \A k \in (Len(doc) - n + 1)..Len(doc) : IsBlank(doc[k])})

\* the line under the block tests starts a block and has text before its last "("
SplitsInTwo ==
  /\ ~inside_columns
  /\ endswith(strip(lines[idx]), "(")
  /\ ~IsBlank(Slice(lines[idx], 1, rfind(lines[idx], "(") - 1))

\* a step of format over a line emits two lines for a block start with text
\* before its "(", and one line for any other line
OneLinePerLine ==
  (variant = "combined_4" /\ pc = "columns")
    => Len(transformed_lines') = Len(transformed_lines) + (IF SplitsInTwo THEN 2 ELSE 1)

\* the emitted lines are in the order of the lines they came from
InInputOrder == \A k \in DOMAIN origin : k > 1 => origin[k - 1] <= origin[k]

\* C11: format emits its lines in input order, one for each input line and two
\* for a block start with text before its last "("; the document keeps its
\* number of leading and of trailing blank lines.
C11_LineCount ==
  /\ [][OneLinePerLine]_vars
  /\ [](variant = "combined_4" => InInputOrder)
  /\ []((variant = "combined_4" /\ pc = "done")
          => /\ LeadingBlank(transformed_lines) = LeadingBlank(lines)
             /\ TrailingBlank(transformed_lines) = TrailingBlank(lines))

\* the number of commas in the first n lines of doc
RECURSIVE CommasIn(_, _)
CommasIn(doc, n) ==
  IF n = 0 THEN 0 ELSE CommasIn(doc, n - 1) + CountChar(doc[n], ",")

\* the line ends in a comma, whitespace after it apart
HasTrailingComma(l) == endswith(rstrip(l), ",")

\* out is the line l without its trailing comma and with one comma more
GotComma(l, out) ==
  CountChar(out, ",") = CountChar(l, ",") + 1 - (IF HasTrailingComma(l) THEN 1 ELSE 0)

\* a step over a column line puts a comma in front exactly when the line
\* before it was a column line that lost its trailing comma
CommaMoved ==
  (/\ variant = "combined_4" /\ pc = "columns" /\ inside_columns
   /\ ~IsBlank(lines[idx]) /\ ~startswith(strip(lines[idx]), ")"))
    => (GotComma(lines[idx], transformed_lines'[Len(transformed_lines')])
          <=> (idx > 1 /\ HasTrailingComma(lines[idx - 1])))

\* C12: format only repositions commas: inside a block a line gets a leading
\* comma exactly when the column line before it lost its trailing comma, and
\* the output of every document has as many commas as its input.
C12_CommasKept ==
  /\ [][CommaMoved]_vars
  /\ []((variant = "combined_4" /\ pc = "done")
          => CommasIn(transformed_lines, Len(transformed_lines)) = CommasIn(lines, Len(lines)))

\* index of the last character of l that is not whitespace, 0 when there is none
LastInk(l) == SetMax({0} \cup {k \in 1..Len(l) : ~IsSpace(l[k])})

\* l without its trailing comma and the whitespace after that comma
WithoutTrailingComma(l) ==
  IF LastInk(l) > 0 /\ l[LastInk(l)] = ","
    THEN SubSeq(l, 1, LastInk(l) - 1)
    ELSE l

\* l with one comma between its leading whitespace and the rest
CommaAfterIndent(l) ==
  SubSeq(l, 1, LeadingSpaces(l)) \o <<",">> \o SubSeq(l, LeadingSpaces(l) + 1, Len(l))

\* the loop's line is a column line: the pass is inside a block, the line is
\* not blank and does not start with ")"
AtColumnLine ==
  /\ variant = "combined_4"
  /\ pc = "columns"
  /\ inside_columns
  /\ ~IsBlank(line)
  /\ ~startswith(strip(line), ")")

ColumnLineRewritten ==
  AtColumnLine
    => /\ transformed_lines' =
            Append(transformed_lines,
                   IF first_column
                     THEN WithoutTrailingComma(line)
                     ELSE CommaAfterIndent(WithoutTrailingComma(line)))
       /\ first_column' = FALSE
       /\ inside_columns' = TRUE

\* C15: inside a block, a non-blank line that does not start with ")" is
\* emitted, when it is not the first column, as its leading whitespace, one
\* comma and its content without its trailing comma and the whitespace after
\* that comma, nothing standing between the added comma and the content; the
\* first column is emitted without a leading comma, its trailing comma
\* removed as well, and first_column becomes false.
C15_ColumnLine == [][ColumnLineRewritten]_vars

\* "  a, ", "  b,c," and a tab-indented "d" have been emitted as "  a",
\* "  ,b,c" and a tab, a comma and "d"
C15_Witness ==
  /\ variant = "combined_4"
  /\ pc = "done"
  /\ lines = CommaShapes
  /\ transformed_lines =
       << <<"t">>, <<"(">>, <<" "," ","a">>, <<" "," ",",","b",",","c">>,
          <<"\t",",","d">> >>

\* the number of parentheses open after the first n lines of doc, counted from
\* the "(" that ends a line outside any column list
RECURSIVE ColumnListDepth(_, _)
ColumnListDepth(doc, n) ==
  IF n = 0 THEN 0
  ELSE LET before == ColumnListDepth(doc, n - 1)
           after  == before + CountChar(doc[n], "(") - CountChar(doc[n], ")")
       IN  IF before = 0
             THEN (IF endswith(strip(doc[n]), "(") THEN 1 ELSE 0)
             ELSE (IF after > 0 THEN after ELSE 0)

\* C16: at every line, inside_columns is true exactly when the line lies
\* between the "(" that opens a column list and the ")" that matches it at top
\* level; a ")" that closes a parenthesis opened inside the block does not end
\* the block.
C16_MatchingParen ==
  (variant = "combined_4" /\ pc \in {"line", "columns", "done"})
    => (inside_columns <=> ColumnListDepth(lines, idx - 1) > 0)

\* the line under the block tests is the first non-blank line after the line
\* that opened its block, a line outside any column list that ends in "("
FirstOfBlock ==
  /\ pc = "columns"
  /\ inside_columns
  /\ ~IsBlank(lines[idx])
  /\ ~startswith(strip(lines[idx]), ")")
  /\ ~endswith(strip(lines[idx]), "(")
  /\ \E j \in 1..(idx - 1) :
       /\ endswith(strip(lines[j]), "(")
       /\ ColumnListDepth(lines, j - 1) = 0
       /\ \A k \in (j + 1)..(idx - 1) : IsBlank(lines[k])

\* a step that enters a block sets first_column
FlagSetAtBlockStart == (pc = "columns" /\ ~inside_columns /\ inside_columns') => first_column'

\* a blank line inside a block is emitted as it is and leaves first_column alone
BlankKeepsFlag ==
  (pc = "columns" /\ inside_columns /\ IsBlank(lines[idx]))
    => /\ transformed_lines' = Append(transformed_lines, lines[idx])
       /\ first_column' = first_column

\* the first non-blank column line of a block gets no comma in front
FirstColumnBare ==
  FirstOfBlock
    => ~GotComma(lines[idx], transformed_lines'[Len(transformed_lines')])

\* C17: in combined_2, combined_4 and combined_5 alike, every block start sets
\* first_column, a blank line inside a block is emitted unchanged and leaves
\* the flag alone, and so the first non-blank column line of every block of a
\* document, not only of the first, is emitted without a leading comma.
C17_EveryBlock ==
  /\ [][FlagSetAtBlockStart]_vars
  /\ [][BlankKeepsFlag]_vars
  /\ [][FirstColumnBare]_vars

\* p ends with the letters of w
EndsWithWord(p, w) ==
  Len(p) >= Len(w) /\ SubSeq(p, Len(p) - Len(w) + 1, Len(p)) = w

\* p without the word w it ends with and the whitespace before it
DropWord(p, w) == rstrip(SubSeq(p, 1, Len(p) - Len(w)))

\* the keyword, TABLE or VIEW, a matched prefix ends with, IF NOT EXISTS and
\* the whitespace after it taken off
EndingKeyword(prefix) ==
  LET p    == rstrip(upper(prefix))
      core == IF EndsWithWord(p, upper(kw_exists))
                THEN DropWord(DropWord(DropWord(p, upper(kw_exists)), upper(kw_not)),
                              upper(kw_if))
                ELSE p
  IN  IF EndsWithWord(core, upper(kw_view)) THEN upper(kw_view) ELSE upper(kw_table)

\* the loop's line is a header that gets the canonical prefix
GetsCanonicalPrefix(match) ==
  /\ match.found
  /\ split_count(match.identifier) <= 3
  /\ ~contains(lower(match.prefix),
               <<" ","o","r"," ","r","e","p","l","a","c","e"," ">>)

\* C18: the statement type in the canonical prefix CREATE OR REPLACE {TYPE} is
\* the keyword the matched prefix ends with, TABLE or VIEW, whatever text lies
\* between CREATE and that keyword.
C18_StatementType ==
  (variant = "combined_4" /\ pc = "columns"
     /\ GetsCanonicalPrefix(create_statement_regex(recase(lines[idx]))))
    => LET match    == create_statement_regex(recase(lines[idx]))
           expected == <<"C","R","E","A","T","E"," ","O","R"," ","R","E","P","L","A","C","E"," ">>
                         \o EndingKeyword(match.prefix) \o <<" ">>
       IN  /\ Len(line) >= Len(expected)
           /\ SubSeq(line, 1, Len(expected)) = expected

\* the placeholder stands at index p of s, in any case of its letters
PlaceholderAt(s, p) ==
  /\ p + Len(Placeholder) - 1 <= Len(s)
  /\ lower(SubSeq(s, p, p + Len(Placeholder) - 1)) = lower(Placeholder)

\* every placeholder of s is spelled {{edw_db_name}}
CanonicalSpelling(s) ==
  \A p \in 1..Len(s) :
    PlaceholderAt(s, p) => SubSeq(s, p, p + Len(Placeholder) - 1) = lower(Placeholder)

\* out has the placeholders of s, each in the case s has it in
PlaceholdersUntouched(s, out) ==
  \A p \in 1..Len(s) :
    PlaceholderAt(s, p)
      => /\ p + Len(Placeholder) - 1 <= Len(out)
         /\ SubSeq(out, p, p + Len(Placeholder) - 1) = SubSeq(s, p, p + Len(Placeholder) - 1)

\* C19: keyword uppercasing leaves the case of a placeholder alone, every
\* placeholder reaches the CREATE canonicalization spelled {{edw_db_name}},
\* and every placeholder of format's output, copied from the input or put in
\* by the canonicalizer, has that spelling.
C19_PlaceholderSpelling ==
  variant = "combined_4" =>
    /\ pc = "columns"
         => /\ PlaceholdersUntouched(lines[idx], _uppercase_keywords(lines[idx]))
            /\ CanonicalSpelling(recase(lines[idx]))
    /\ \A k \in DOMAIN transformed_lines : CanonicalSpelling(transformed_lines[k])

\* C20: whatever the interleaving of the calls the GUI's threads make on the
\* one formatter, each call returns what it returns when run alone.
C20_NoInterference ==
  \A t \in Threads :
    thread_calls[t].pc = "done"
      => thread_calls[t].transformed_lines = format_lines(thread_calls[t].lines)

\* a call that opened a block has returned, the other thread having run
\* iterations of its own call in between
C20_Witness ==
  \E t \in Threads :
    /\ thread_calls[t].pc = "done"
    /\ thread_calls[t].overlapped
    /\ thread_calls[t].lines = << <<"t"," ","(">>, <<" "," ","a",",">> >>
    /\ thread_calls[t].transformed_lines = << <<"t">>, <<"(">>, <<" "," ","a">> >>
    /\ \E u \in Threads \ {t} : thread_calls[u].transformed_lines # <<>>

\* the name with `_formatted` immediately before its extension
FormattedBeforeExtension(filename) ==
  SubSeq(filename, 1, Len(filename) - 4)
    \o <<"_","f","o","r","m","a","t","t","e","d">>
    \o SubSeq(filename, Len(filename) - 3, Len(filename))

\* the files of the folder whose name ends in .sql, in any case
SqlFiles == {n \in cli.listing : EndsWithWord(lower(n), <<".","s","q","l">>)}

\* a folder job went through all the files of its folder
BatchDone ==
  /\ cli.pc = "returned"
  /\ cli.mode \in {"folder", "browse_folder"}
  /\ cli.input /\ cli.output /\ cli.input_kind = "dir"
  /\ "error" \notin cli.console

\* C13: a folder job that handled its N files named .sql (in any case) has
\* written N distinct files; each is named as its input with `_formatted`
\* immediately before the extension, a name other than the input's, and holds
\* the format of that file alone.
C13_FolderBatch ==
  BatchDone =>
    /\ Cardinality({w.name : w \in cli.written}) = Cardinality(SqlFiles)
    /\ \A n \in SqlFiles :
         \E w \in cli.written :
           /\ w.source = n
           /\ w.name = FormattedBeforeExtension(n)
           /\ w.name # n
           /\ w.text = format_lines(FileText[n])

\* the run of the command line met one of the failures of its mode
FailureMet ==
  /\ cli.input
  /\ CASE cli.mode = "string" -> cli.output /\ ~cli.output_ok
       [] cli.mode = "file" -> ~cli.output \/ cli.input_kind # "file" \/ ~cli.output_ok
       [] cli.mode = "folder" ->
            \/ ~cli.output
            \/ cli.input_kind # "dir"
            \/ SqlFiles \cap cli.unreadable # {}
            \/ SqlFiles # {} /\ ~cli.output_ok
       [] OTHER -> FALSE

\* C14: in the command line no exception leaves main, and a run that met a
\* failure (no input file, an input that is no directory, no --output in file
\* or folder mode, an unreadable file of the folder, an unwritable output)
\* has shown an error message when it returns.
C14_NoEscape ==
  cli.mode # "browse_folder" =>
    /\ cli.pc # "raised"
    /\ cli.pc = "returned" /\ FailureMet => "error" \in cli.console

====
